---- MODULE Spec2Model ----
(***************************************************************************)
(* Model of etl_pipeline/transforms/plot_dataset.py: the fusion of farms,  *)
(* hourly weather and fire detections into per-(farm, hour) feature rows,  *)
(* the per-farm current status and the map tables.                         *)
(*                                                                         *)
(* Number representation (TLC integers are 32 bit, Python floats are not): *)
(*   scores                      integers in units of 1e-6   (Micro = 1.0) *)
(*   frp, wind, temperature,                                               *)
(*   humidity, confidence        integers in units of 1e-3                 *)
(*   latitude, longitude         integers in units of 1e-7 degree          *)
(*   distances, radius           integers in metres (km * 1000)            *)
(*   instants                    integers in seconds                       *)
(* Optional values (Python None): <<>> is None, <<x>> is the value x.      *)
(***************************************************************************)
EXTENDS Integers, Sequences, FiniteSets, TLC

VARIABLES
    farms,                   \* list[FarmAsset] read from farms_csv_path
    firms_rows,              \* fire detections read from firms_jsonl_path
    weather_rows,            \* weather records read from open_meteo_jsonl_path
    cdl_rows,                \* land-cover records read from cdl_jsonl_path
    fire_radius_km,          \* parameter, in metres
    fire_window_hours,       \* parameter, in hours
    now_utc,                 \* datetime.now(timezone.utc) read by the current run
    pc,                      \* "idle", "farms", "done" or "failed"
    farm_idx,                \* position of the loop `for farm in farms`
    weather_by_coord,        \* insertion-ordered dict: sequence of [coord, series]
    map_fire_points,
    chart_rows,
    latest_by_farm,          \* insertion-ordered dict: sequence of [key, value]
    latest_observed_by_farm, \* insertion-ordered dict: sequence of [key, value]
    result,                  \* the returned dict of the current run, <<>> before it returns
    prev_result,             \* the returned dict of the previous run, <<>> if none
    prev_now,                \* now_utc of the previous run
    runs,                    \* number of runs of build_plot_tables started
    match_calls              \* history: the calls of _match_fires_for_window of this run

vars == <<farms, firms_rows, weather_rows, cdl_rows, fire_radius_km, fire_window_hours,
          now_utc, pc, farm_idx, weather_by_coord, map_fire_points, chart_rows,
          latest_by_farm, latest_observed_by_farm, result, prev_result, prev_now, runs,
          match_calls>>

----------------------------------------------------------------------------
(* Units *)

Micro == 1000 * 1000          \* 1.0 as a score
Milli == 10 * 100             \* 1.0 as a weather or fire quantity
DegUnit == 10 * 1000 * 1000   \* 1 degree as a coordinate
DegE4 == DegUnit \div 10000   \* 0.0001 degree as a coordinate
Hour == 60 * 60               \* timedelta(hours=1) in seconds
Day == 24 * Hour

None == <<>>
Some(x) == <<x>>

Abs(x) == IF x < 0 THEN -x ELSE x
Min2(a, b) == IF b < a THEN b ELSE a
Max2(a, b) == IF b > a THEN b ELSE a

\* floor(a * Micro / b) for 0 <= a, 0 < b, by long division (a * Micro overflows)
DivMicro(a, b) ==
    LET q1 == (a * 1000) \div b
        r1 == (a * 1000) % b
    IN  q1 * 1000 + (r1 * 1000) \div b

\* floor(a * b / Micro) for scores 0 <= a, b <= Micro (a * b overflows)
MulMicro(a, b) ==
    LET a1 == a \div 1000
        a0 == a % 1000
    IN  (a1 * b + (a0 * b) \div 1000) \div 1000

----------------------------------------------------------------------------
(* JSON field values and their parsing *)

\* A JSON number field: [k |-> "num", v |-> n], null or absent: k = "null",
\* a string that float() rejects: k = "text".
NumVal(n) == [k |-> "num", v |-> n]
NullVal == [k |-> "null", v |-> 0]
TextVal == [k |-> "text", v |-> 0]

\* _to_float: float(value), None on TypeError / ValueError
_to_float(value) == IF value.k = "num" THEN Some(value.v) ELSE None

\* Python `x or default` on an optional float: None and 0.0 are both falsy
OrDefault(opt, default) == IF opt = None \/ opt[1] = 0 THEN default ELSE opt[1]

\* A timestamp field. k = "iso": an ISO-8601 string of local time `local` with
\* UTC offset `off` seconds when tz, naive when ~tz; k = "text": a string that
\* fromisoformat rejects; k = "null": JSON null; k = "absent": no such key.
IsoVal(local, tz, off) == [k |-> "iso", local |-> local, tz |-> tz, off |-> off]
NullTime == [k |-> "null", local |-> 0, tz |-> FALSE, off |-> 0]
AbsentTime == [k |-> "absent", local |-> 0, tz |-> FALSE, off |-> 0]
TextTime == [k |-> "text", local |-> 0, tz |-> FALSE, off |-> 0]

\* _to_dt: the instant in UTC seconds; a naive time is taken as UTC
_to_dt(value) ==
    IF value.k # "iso" THEN None
    ELSE IF value.tz THEN Some(value.local - value.off)
    ELSE Some(value.local)

\* datetime.isoformat() of a UTC datetime: the fields of
\* "YYYY-MM-DDTHH:MM:SS+00:00" (the date as a day number), most significant first
IsoFormat(t) == <<t \div Day, (t % Day) \div Hour, (t % Hour) \div 60, t % 60>>

\* Python `a > b` on two such strings: lexicographic
StrGreater(a, b) ==
    \E i \in 1..4 : a[i] > b[i] /\ \A j \in 1..(i - 1) : a[j] = b[j]

StrLess(a, b) == StrGreater(b, a)

----------------------------------------------------------------------------
(* Geodesy and clamping *)

EarthRadiusKm == 6371

\* metres of great-circle arc per 0.0001 degree, times 10^4:
\* EarthRadiusKm * 1000 * pi / 180 / 10^4 = 11.1195 m
ArcMetresE4 == (EarthRadiusKm * 174533) \div 10000

\* _haversine_km, in metres.  With d_lon = 0 the code's a is sin^2(d_lat/2) and
\* c = 2*atan2(sqrt(a), sqrt(1-a)) = |d_lat|; on the equator (lat1 = lat2 = 0)
\* a is sin^2(d_lon/2) and c = |d_lon|.  The model's points lie on one meridian
\* or on the equator, where the arc is earth_radius_km * |angle in radians|.
_haversine_km(lat1, lon1, lat2, lon2) ==
    LET d_lat == lat2 - lat1
        d_lon == lon2 - lon1
        c == IF d_lon = 0 THEN Abs(d_lat) ELSE Abs(d_lon)
        whole == c \div DegE4
        part == c % DegE4
    IN  (whole * ArcMetresE4 + (part * ArcMetresE4) \div DegE4) \div 10000

\* _clip01 on scores
_clip01(value) == Max2(0, Min2(value, Micro))

\* round(x, 4) on a score: to the nearest multiple of 1e-4, ties to even
Round4(x) ==
    LET q == x \div 100
        r == x % 100
    IN  IF r > 50 \/ (r = 50 /\ q % 2 = 1) THEN (q + 1) * 100 ELSE q * 100

----------------------------------------------------------------------------
(* Strings of the farm registry: a crop type is a sequence of characters *)

UpperCase == <<"A","B","C","D","E","F","G","H","I","J","K","L","M",
               "N","O","P","Q","R","S","T","U","V","W","X","Y","Z">>
LowerCase == <<"a","b","c","d","e","f","g","h","i","j","k","l","m",
               "n","o","p","q","r","s","t","u","v","w","x","y","z">>
WhiteSpace == {" ", "\t", "\n"}

\* str.lower()
LowerChar(ch) ==
    IF \E i \in 1..26 : UpperCase[i] = ch
    THEN LowerCase[CHOOSE i \in 1..26 : UpperCase[i] = ch]
    ELSE ch

Lower(str) == [i \in 1..Len(str) |-> LowerChar(str[i])]

\* str.strip(): drop leading and trailing whitespace
Strip(str) ==
    LET keep == {i \in 1..Len(str) : str[i] \notin WhiteSpace}
    IN  IF keep = {} THEN <<>>
        ELSE LET lo == CHOOSE i \in keep : \A j \in keep : i <= j
                 hi == CHOOSE i \in keep : \A j \in keep : j <= i
             IN  SubSeq(str, lo, hi)

\* _crop_factor that compares the raw crop type, without strip()
CropFactor_NoStrip(crop_type) ==
    LET crop == Lower(crop_type)
    IN  IF crop \in {<<"g","r","a","p","e">>, <<"g","r","a","p","e","s">>,
                     <<"v","i","n","e","y","a","r","d">>}
        THEN 115
        ELSE IF crop \in {<<"a","l","m","o","n","d">>, <<"w","a","l","n","u","t">>,
                          <<"n","u","t","s">>, <<"n","u","t">>}
        THEN 105
        ELSE 100

\* _crop_factor, in percent
_crop_factor(crop_type) ==
    LET crop == Lower(Strip(crop_type))
    IN  IF crop \in {<<"g","r","a","p","e">>, <<"g","r","a","p","e","s">>,
                     <<"v","i","n","e","y","a","r","d">>}
        THEN 115
        ELSE IF crop \in {<<"a","l","m","o","n","d">>, <<"w","a","l","n","u","t">>,
                          <<"n","u","t","s">>, <<"n","u","t">>}
        THEN 105
        ELSE 100

----------------------------------------------------------------------------
(* Risk levels *)

\* _risk_level on an unrounded score
_risk_level(score) ==
    IF score >= 670000 THEN "high"
    ELSE IF score >= 340000 THEN "medium"
    ELSE "low"

\* a hint that weighs the two terms equally
RiskHint_EqualWeights(frp, confidence) ==
    LET score == (50 * _clip01(frp * 50) + 50 * _clip01(confidence * 1000)) \div 100
    IN  IF score >= 670000 THEN "high"
        ELSE IF score >= 340000 THEN "medium"
        ELSE "low"

\* _risk_hint; frp and confidence in units of 1e-3
_risk_hint(frp, confidence) ==
    LET score == (60 * _clip01(frp * 50) + 40 * _clip01(confidence * 1000)) \div 100
    IN  IF score >= 670000 THEN "high"
        ELSE IF score >= 340000 THEN "medium"
        ELSE "low"

----------------------------------------------------------------------------
(* Insertion-ordered dicts: sequences of [key, value], keys distinct *)

DictHas(d, key) == \E i \in 1..Len(d) : d[i].key = key

DictGet(d, key) == d[CHOOSE i \in 1..Len(d) : d[i].key = key].value

\* d[key] = value: an existing key keeps its position
DictSet(d, key, value) ==
    IF DictHas(d, key)
    THEN [i \in 1..Len(d) |-> IF d[i].key = key THEN [key |-> key, value |-> value] ELSE d[i]]
    ELSE Append(d, [key |-> key, value |-> value])

DictValues(d) == [i \in 1..Len(d) |-> d[i].value]

----------------------------------------------------------------------------
(* Spatial indexer *)

\* The sort key r.get("event_hour_utc", "") as Python compares strings:
\* "" first, then ISO strings by local time and then by suffix (none, "+hh:mm"
\* by offset, "-hh:mm" by offset), then other text.
RawKey(value) ==
    IF value.k = "absent" THEN <<0, 0, 0>>
    ELSE IF value.k = "iso"
    THEN <<1, value.local,
           IF ~value.tz THEN 0
           ELSE IF value.off >= 0 THEN 1 + value.off ELSE Day + (0 - value.off)>>
    ELSE <<2, 0, 0>>

RawKeyLess(a, b) ==
    \E i \in 1..3 : a[i] < b[i] /\ \A j \in 1..(i - 1) : a[j] = b[j]

\* list.sort(key=...) compares keys; None against anything raises TypeError
SortRaises(series) ==
    Len(series) >= 2 /\ \E i \in 1..Len(series) : series[i].event_hour_utc.k = "null"

\* insert row after the last element whose key is not greater (stable)
RECURSIVE InsertSorted(_, _)
InsertSorted(sorted, row) ==
    IF sorted = <<>> THEN <<row>>
    ELSE LET last == sorted[Len(sorted)]
         IN  IF RawKeyLess(RawKey(row.event_hour_utc), RawKey(last.event_hour_utc))
             THEN Append(InsertSorted(SubSeq(sorted, 1, Len(sorted) - 1), row), last)
             ELSE Append(sorted, row)

RECURSIVE SortSeries(_)
SortSeries(series) ==
    IF series = <<>> THEN <<>>
    ELSE InsertSorted(SortSeries(SubSeq(series, 1, Len(series) - 1)), series[Len(series)])

\* the first loop of _group_weather_by_coord: grouped.setdefault(...).append(row)
RECURSIVE GroupRows(_)
GroupRows(rows) ==
    IF rows = <<>> THEN <<>>
    ELSE LET grouped == GroupRows(SubSeq(rows, 1, Len(rows) - 1))
             row == rows[Len(rows)]
             lat == _to_float(row.latitude)
             lon == _to_float(row.longitude)
         IN  IF lat = None \/ lon = None THEN grouped
             ELSE LET coord == <<lat[1], lon[1]>>
                  IN  IF DictHas(grouped, coord)
                      THEN DictSet(grouped, coord, Append(DictGet(grouped, coord), row))
                      ELSE DictSet(grouped, coord, <<row>>)

\* the sort of _group_weather_by_coord raises
GroupRaises(rows) ==
    LET grouped == GroupRows(rows)
    IN  \E i \in 1..Len(grouped) : SortRaises(grouped[i].value)

\* _group_weather_by_coord when it returns
_group_weather_by_coord(rows) ==
    LET grouped == GroupRows(rows)
    IN  [i \in 1..Len(grouped) |->
            [key |-> grouped[i].key, value |-> SortSeries(grouped[i].value)]]

\* a search that replaces the best series also at an equal distance
RECURSIVE NearestUpTo_LastWins(_, _, _)
NearestUpTo_LastWins(farm, by_coord, n) ==
    IF n = 0 THEN [best_distance |-> None, best_series |-> <<>>]
    ELSE LET prev == NearestUpTo_LastWins(farm, by_coord, n - 1)
             coord == by_coord[n].key
             distance == _haversine_km(farm.latitude, farm.longitude, coord[1], coord[2])
         IN  IF prev.best_distance = None \/ distance <= prev.best_distance[1]
             THEN [best_distance |-> Some(distance), best_series |-> by_coord[n].value]
             ELSE prev

\* _nearest_weather_series: the best series after the first n coordinates
RECURSIVE NearestUpTo(_, _, _)
NearestUpTo(farm, by_coord, n) ==
    IF n = 0 THEN [best_distance |-> None, best_series |-> <<>>]
    ELSE LET prev == NearestUpTo(farm, by_coord, n - 1)
             coord == by_coord[n].key
             distance == _haversine_km(farm.latitude, farm.longitude, coord[1], coord[2])
         IN  IF prev.best_distance = None \/ distance < prev.best_distance[1]
             THEN [best_distance |-> Some(distance), best_series |-> by_coord[n].value]
             ELSE prev

_nearest_weather_series(farm, by_coord) ==
    NearestUpTo(farm, by_coord, Len(by_coord)).best_series

----------------------------------------------------------------------------
(* Temporal-window matcher *)

\* the matcher with the radius test written as a strict `distance < radius`
FireDistance_StrictRadius(row, farm, window_start, window_end, radius) ==
    LET acquired == _to_dt(row.acquired_at_utc)
        lat == _to_float(row.latitude)
        lon == _to_float(row.longitude)
    IN  IF acquired = None \/ acquired[1] < window_start \/ acquired[1] > window_end
        THEN None
        ELSE IF lat = None \/ lon = None
        THEN None
        ELSE LET distance == _haversine_km(farm.latitude, farm.longitude, lat[1], lon[1])
             IN  IF distance < radius THEN Some(distance) ELSE None

\* the body of `for row in firms_rows`: None when the row is rejected, else
\* the distance to the farm
FireDistance(row, farm, window_start, window_end, radius) ==
    LET acquired == _to_dt(row.acquired_at_utc)
        lat == _to_float(row.latitude)
        lon == _to_float(row.longitude)
    IN  IF acquired = None \/ acquired[1] < window_start \/ acquired[1] > window_end
        THEN None
        ELSE IF lat = None \/ lon = None
        THEN None
        ELSE LET distance == _haversine_km(farm.latitude, farm.longitude, lat[1], lon[1])
             IN  IF distance <= radius THEN Some(distance) ELSE None

\* a matcher that writes the distance into the input record itself
Enrich_InPlace(row, distance) ==
    [enriched |-> ("distance_km" :> distance) @@ row,
     row |-> ("distance_km" :> distance) @@ row]

\* lines 209-210: enriched = dict(row); enriched["distance_km"] = distance.
\* `enriched` is the record appended to matched, `row` is the input record as
\* the two statements leave it
Enrich(row, distance) ==
    [enriched |-> ("distance_km" :> distance) @@ row,
     row |-> row]

\* _match_fires_for_window over the first n detections; each kept detection is
\* a copy of the row with distance_km added
RECURSIVE MatchUpTo(_, _, _, _, _, _)
MatchUpTo(rows, farm, window_start, window_end, radius, n) ==
    IF n = 0 THEN <<>>
    ELSE LET matched == MatchUpTo(rows, farm, window_start, window_end, radius, n - 1)
             distance == FireDistance(rows[n], farm, window_start, window_end, radius)
         IN  IF distance = None THEN matched
             ELSE Append(matched, Enrich(rows[n], distance[1]).enriched)

_match_fires_for_window(rows, farm, window_start, window_end, radius) ==
    MatchUpTo(rows, farm, window_start, window_end, radius, Len(rows))

\* the records of firms_rows as a call of _match_fires_for_window leaves them
RowsAfterMatch(rows, farm, window_start, window_end, radius) ==
    [n \in 1..Len(rows) |->
        LET distance == FireDistance(rows[n], farm, window_start, window_end, radius)
        IN  IF distance = None THEN rows[n] ELSE Enrich(rows[n], distance[1]).row]

\* a window that opens one hour early
WindowStart_HourEarly(event_hour, window_hours) == event_hour - (window_hours + 1) * Hour

\* window_start = event_hour - timedelta(hours=fire_window_hours)
WindowStart(event_hour, window_hours) == event_hour - window_hours * Hour

----------------------------------------------------------------------------
(* Risk scorer *)

\* min((row["distance_km"] for row in matched_fires), default=...)
MinDistance(matched, default) ==
    IF matched = <<>> THEN default
    ELSE LET ds == {matched[i].distance_km : i \in 1..Len(matched)}
         IN  CHOOSE m \in ds : \A d \in ds : m <= d

RECURSIVE FrpSum(_)
FrpSum(matched) ==
    IF matched = <<>> THEN 0
    ELSE OrDefault(_to_float(Head(matched).frp), 0) + FrpSum(Tail(matched))

\* the four sub-scores, unrounded
FireProximity(min_distance_km, radius) ==
    _clip01(Micro - DivMicro(min_distance_km, radius))

\* fire_intensity without _clip01
FireIntensity_Unclipped(frp_sum_24h) == frp_sum_24h * 5

FireIntensity(frp_sum_24h) == _clip01(frp_sum_24h * 5)

SmokeTransport(fire_proximity, wind_speed) ==
    MulMicro(fire_proximity, _clip01((wind_speed * 1000) \div 12))

HeatStress(temperature, humidity) ==
    MulMicro(_clip01(((temperature - 30 * Milli) * 1000) \div 12),
             _clip01((60 * Milli - humidity) * 25))

\* base_risk = 0.35*p + 0.25*i + 0.2*s + 0.2*h
BaseRisk(p, i, s, h) == (35 * p + 25 * i + 20 * s + 20 * h) \div 100

\* risk_score = _clip01(base_risk * crop_factor), crop_factor in percent
RiskScore(base_risk, crop_factor) == _clip01((base_risk * crop_factor) \div 100)

\* a maximum that keeps the last of several equal contributions
TopDriver_LastWins(p, i, s, h) ==
    LET keys == <<"fire_proximity", "fire_intensity", "smoke_transport", "heat_stress">>
        contributions == <<35 * p, 25 * i, 20 * s, 20 * h>>
        best == CHOOSE k \in 1..4 :
                    /\ \A j \in 1..4 : contributions[j] <= contributions[k]
                    /\ \A j \in (k + 1)..4 : contributions[j] < contributions[k]
    IN  keys[best]

\* max(contributions, key=contributions.get): the first key with the largest value
TopDriver(p, i, s, h) ==
    LET keys == <<"fire_proximity", "fire_intensity", "smoke_transport", "heat_stress">>
        contributions == <<35 * p, 25 * i, 20 * s, 20 * h>>
        best == CHOOSE k \in 1..4 :
                    /\ \A j \in 1..4 : contributions[j] <= contributions[k]
                    /\ \A j \in 1..(k - 1) : contributions[j] < contributions[k]
    IN  keys[best]

_compute_feature_row(farm, weather, event_hour, matched_fires, crop_factor, cdl_row, radius) ==
    LET min_distance_km == MinDistance(matched_fires, radius)
        frp_sum_24h == FrpSum(matched_fires)
        fire_count_24h == Len(matched_fires)
        wind_speed == OrDefault(_to_float(weather.wind_speed_10m), 0)
        temperature == OrDefault(_to_float(weather.temperature_2m), 0)
        humidity == OrDefault(_to_float(weather.relative_humidity_2m), 100 * Milli)
        fire_proximity == FireProximity(min_distance_km, radius)
        fire_intensity == FireIntensity(frp_sum_24h)
        smoke_transport == SmokeTransport(fire_proximity, wind_speed)
        heat_stress == HeatStress(temperature, humidity)
        base_risk == BaseRisk(fire_proximity, fire_intensity, smoke_transport, heat_stress)
        risk_score == RiskScore(base_risk, crop_factor)
    IN  [farm_id |-> farm.farm_id,
         farm_name |-> farm.farm_name,
         crop_type |-> farm.crop_type,
         latitude |-> farm.latitude,
         longitude |-> farm.longitude,
         hour_utc |-> IsoFormat(event_hour),
         risk_score |-> Round4(risk_score),
         risk_level |-> _risk_level(risk_score),
         top_driver |-> TopDriver(fire_proximity, fire_intensity, smoke_transport, heat_stress),
         fire_proximity |-> Round4(fire_proximity),
         fire_intensity |-> Round4(fire_intensity),
         smoke_transport |-> Round4(smoke_transport),
         heat_stress |-> Round4(heat_stress),
         fire_count_24h |-> fire_count_24h,
         frp_sum_24h |-> frp_sum_24h,
         firms_min_distance_km |-> min_distance_km,
         wind_speed_10m |-> wind_speed,
         temperature_2m |-> temperature,
         relative_humidity_2m |-> humidity,
         cdl_class_code |-> IF cdl_row = None THEN None ELSE cdl_row[1].cdl_class_code]

\* a status row that reads the land-cover code under a key the feature row
\* does not have
ToFarmStatus_NoCdl(feature_row) ==
    [farm_id |-> feature_row.farm_id,
     farm_name |-> feature_row.farm_name,
     crop_type |-> feature_row.crop_type,
     lat |-> feature_row.latitude,
     lon |-> feature_row.longitude,
     hour_utc |-> feature_row.hour_utc,
     risk_score |-> feature_row.risk_score,
     risk_level |-> feature_row.risk_level,
     top_driver |-> feature_row.top_driver,
     cdl_class_code |-> None]

_to_farm_status(feature_row) ==
    [farm_id |-> feature_row.farm_id,
     farm_name |-> feature_row.farm_name,
     crop_type |-> feature_row.crop_type,
     lat |-> feature_row.latitude,
     lon |-> feature_row.longitude,
     hour_utc |-> feature_row.hour_utc,
     risk_score |-> feature_row.risk_score,
     risk_level |-> feature_row.risk_level,
     top_driver |-> feature_row.top_driver,
     cdl_class_code |-> feature_row.cdl_class_code]

----------------------------------------------------------------------------
(* Fire points *)

RECURSIVE FirePointsUpTo(_, _)
FirePointsUpTo(rows, n) ==
    IF n = 0 THEN <<>>
    ELSE LET out == FirePointsUpTo(rows, n - 1)
             row == rows[n]
             lat == _to_float(row.latitude)
             lon == _to_float(row.longitude)
             confidence == OrDefault(_to_float(row.confidence), 0)
             frp == OrDefault(_to_float(row.frp), 0)
         IN  IF lat = None \/ lon = None THEN out
             ELSE Append(out, [id |-> n, lat |-> lat[1], lon |-> lon[1],
                               time_utc |-> row.acquired_at_utc, frp |-> frp,
                               confidence |-> confidence,
                               risk_hint |-> _risk_hint(frp, confidence)])

_build_map_fire_points(rows) == FirePointsUpTo(rows, Len(rows))

----------------------------------------------------------------------------
(* Boundary resolver: polygon coordinates are in units of 1e-9 degree *)

\* a validity test that looks at the type tag only
IsPolygonGeometry_TypeOnly(value) ==
    IF value = None THEN FALSE
    ELSE value[1].type \in {"Polygon", "MultiPolygon"}

\* _is_polygon_geometry on an optional geometry record
_is_polygon_geometry(value) ==
    IF value = None THEN FALSE
    ELSE IF value[1].type \notin {"Polygon", "MultiPolygon"} THEN FALSE
    ELSE Len(value[1].coordinates) > 0

\* a coordinate taken as it is, without round(value, 6)
Round6_None(value) == value

\* round(value, 6) on a coordinate: to the nearest multiple of 1e-6 degree,
\* ties to even
Round6(value) ==
    LET q == value \div 10
        r == value % 10
    IN  IF r > 5 \/ (r = 5 /\ q % 2 = 1) THEN (q + 1) * 10 ELSE q * 10

\* a step that ignores the gaps between the values
InferGridStep_AlwaysDefault(values) == DegUnit \div 20

\* _infer_grid_step, in coordinate units (0.01 is DegUnit \div 100, 0.05 is
\* DegUnit \div 20, 0.1 is DegUnit \div 10)
_infer_grid_step(values) ==
    LET unique == {Round6(values[i]) : i \in 1..Len(values)}
        positive_diffs == {b - a : <<a, b>> \in {<<x, y>> \in unique \X unique :
                              /\ x < y
                              /\ ~\E z \in unique : x < z /\ z < y}}
    IN  IF Cardinality(unique) < 2 THEN DegUnit \div 20
        ELSE IF positive_diffs = {} THEN DegUnit \div 20
        ELSE Max2(DegUnit \div 100,
                  Min2(DegUnit \div 10, CHOOSE m \in positive_diffs :
                                            \A d \in positive_diffs : m <= d))

_grid_cell_polygon(lat, lon, half_lat, half_lon) ==
    [type |-> "Polygon",
     coordinates |-> << <<
        <<lon * 100 - half_lon, lat * 100 - half_lat>>,
        <<lon * 100 + half_lon, lat * 100 - half_lat>>,
        <<lon * 100 + half_lon, lat * 100 + half_lat>>,
        <<lon * 100 - half_lon, lat * 100 + half_lat>>,
        <<lon * 100 - half_lon, lat * 100 - half_lat>> >> >>]

\* farms_by_id = {farm.farm_id: farm for farm in farms}; .get(farm_id)
FarmsById(farm_list, farm_id) ==
    IF \E i \in 1..Len(farm_list) : farm_list[i].farm_id = farm_id
    THEN Some(farm_list[CHOOSE i \in 1..Len(farm_list) :
                 /\ farm_list[i].farm_id = farm_id
                 /\ \A j \in (i + 1)..Len(farm_list) : farm_list[j].farm_id # farm_id])
    ELSE None

\* one feature of _build_map_farm_boundaries_geojson (a status row's lat and
\* lon are the farm's floats, so _to_float never returns None for them)
BoundaryFeature(row, farm_list, half_lat, half_lon) ==
    LET farm_asset == FarmsById(farm_list, row.farm_id)
        registry == IF farm_asset = None THEN None ELSE farm_asset[1].boundary_geometry
        supplied == _is_polygon_geometry(registry)
    IN  [type |-> "Feature",
         properties |-> [farm_id |-> row.farm_id,
                         farm_name |-> row.farm_name,
                         crop_type |-> row.crop_type,
                         risk_score |-> row.risk_score,
                         risk_level |-> row.risk_level,
                         top_driver |-> row.top_driver,
                         hour_utc |-> row.hour_utc,
                         cdl_class_code |-> row.cdl_class_code,
                         boundary_source |-> IF supplied THEN "farm_csv_geojson"
                                             ELSE "inferred_grid_cell"],
         geometry |-> IF supplied THEN registry[1]
                      ELSE _grid_cell_polygon(row.lat, row.lon, half_lat, half_lon)]

_build_map_farm_boundaries_geojson(status, farm_list) ==
    LET lat_step == _infer_grid_step([i \in 1..Len(status) |-> status[i].lat])
        lon_step == _infer_grid_step([i \in 1..Len(status) |-> status[i].lon])
        half_lat == lat_step * 42
        half_lon == lon_step * 42
    IN  [type |-> "FeatureCollection",
         features |-> [i \in 1..Len(status) |->
                          BoundaryFeature(status[i], farm_list, half_lat, half_lon)]]

----------------------------------------------------------------------------
(* Output orderings *)

\* Python string order of the one-letter farm ids
IdRank(farm_id) == CHOOSE i \in 1..26 : UpperCase[i] = farm_id

\* map_farm_status.sort(key=risk_score, reverse=True): stable, descending
RECURSIVE InsertStatus(_, _)
InsertStatus(sorted, row) ==
    IF sorted = <<>> THEN <<row>>
    ELSE LET last == sorted[Len(sorted)]
         IN  IF row.risk_score > last.risk_score
             THEN Append(InsertStatus(SubSeq(sorted, 1, Len(sorted) - 1), row), last)
             ELSE Append(sorted, row)

\* the status rows left in dict order
SortStatus_Unsorted(rows) == rows

RECURSIVE SortStatus(_)
SortStatus(rows) ==
    IF rows = <<>> THEN <<>>
    ELSE InsertStatus(SortStatus(SubSeq(rows, 1, Len(rows) - 1)), rows[Len(rows)])

\* a sort key that is the farm_id alone
ChartKeyLess_FarmOnly(a, b) == IdRank(a.farm_id) < IdRank(b.farm_id)

\* the key (row["farm_id"], row["hour_utc"]) compared as Python compares tuples
ChartKeyLess(a, b) ==
    \/ IdRank(a.farm_id) < IdRank(b.farm_id)
    \/ a.farm_id = b.farm_id /\ StrLess(a.hour_utc, b.hour_utc)

\* chart_rows.sort(key=(farm_id, hour_utc)): stable, ascending
RECURSIVE InsertChart(_, _)
InsertChart(sorted, row) ==
    IF sorted = <<>> THEN <<row>>
    ELSE LET last == sorted[Len(sorted)]
         IN  IF ChartKeyLess(row, last)
             THEN Append(InsertChart(SubSeq(sorted, 1, Len(sorted) - 1), row), last)
             ELSE Append(sorted, row)

RECURSIVE SortChart(_)
SortChart(rows) ==
    IF rows = <<>> THEN <<>>
    ELSE InsertChart(SortChart(SubSeq(rows, 1, Len(rows) - 1)), rows[Len(rows)])

----------------------------------------------------------------------------
(* Inputs: the parsed contents of the four files and the two parameters *)

MaxFarms == 2
MaxWeather == 2
MaxFires == 2
MaxRuns == 2

T0 == 400 * Day + 12 * Hour

\* FarmAsset records as _load_farms builds them
FarmAsset(farm_id, farm_name, latitude, longitude, crop_type, boundary_geometry) ==
    [farm_id |-> farm_id, farm_name |-> farm_name, latitude |-> latitude,
     longitude |-> longitude, crop_type |-> crop_type,
     boundary_geometry |-> boundary_geometry]

\* _extract_boundary_geometry on the values of the candidate columns of a
\* registry row, in the order of candidate_keys.  A value is absent or blank or
\* not a JSON object (k = "text"), or a JSON object (k = "json") with its type
\* and coordinates; the first one that is a polygon geometry is returned.
JsonGeometry(type, coordinates) ==
    [k |-> "json", value |-> [type |-> type, coordinates |-> coordinates]]

NoJson == [k |-> "text", value |-> [type |-> "", coordinates |-> <<>>]]

_extract_boundary_geometry(candidates) ==
    LET valid == {i \in 1..Len(candidates) :
                     /\ candidates[i].k = "json"
                     /\ _is_polygon_geometry(Some(candidates[i].value))}
    IN  IF valid = {} THEN None
        ELSE Some(candidates[CHOOSE i \in valid : \A j \in valid : i <= j].value)

\* _load_farms on one registry row
LoadFarm(row) ==
    FarmAsset(row.farm_id, row.farm_name, row.latitude, row.longitude, row.crop_type,
              _extract_boundary_geometry(row.candidates))

FarmCatalog == <<
    FarmAsset("A", "north block", 0, 0, <<" ", "G", "r", "a", "p", "e", " ">>, None),
    FarmAsset("B", "orchard", DegUnit, 0, <<"n", "u", "t", "s">>,
              Some([type |-> "Polygon",
                    coordinates |-> << << <<0, 0>>, <<10, 0>>, <<10, 10>>, <<0, 0>> >> >>])),
    FarmAsset("C", "field", 40 * DegE4, 0, <<"c", "o", "r", "n">>, None) >>

WeatherRow(latitude, longitude, event_hour_utc, wind, temperature, humidity) ==
    [latitude |-> latitude, longitude |-> longitude, event_hour_utc |-> event_hour_utc,
     wind_speed_10m |-> wind, temperature_2m |-> temperature,
     relative_humidity_2m |-> humidity]

WeatherCatalog == <<
    WeatherRow(NumVal(0), NumVal(0), IsoVal(T0, FALSE, 0),
               NumVal(10 * Milli), NumVal(35 * Milli), NumVal(20 * Milli)),
    WeatherRow(NumVal(0), NumVal(0), IsoVal(T0 + 4 * Hour, TRUE, 2 * Hour),
               NumVal(12 * Milli), NumVal(20 * Milli), NumVal(50 * Milli)),
    WeatherRow(NumVal(DegUnit), NumVal(0), IsoVal(T0 + 2 * Hour, FALSE, 0),
               NullVal, NullVal, NullVal),
    WeatherRow(NumVal(DegUnit), NumVal(0), IsoVal(T0, FALSE, 0),
               NumVal(0 - 5 * Milli), NumVal(1000 * Milli), NumVal(0 - 50 * Milli)),
    WeatherRow(NumVal(0), NumVal(0), TextTime,
               NumVal(5 * Milli), TextVal, NumVal(40 * Milli)) >>

FireRow(latitude, longitude, acquired_at_utc, frp, confidence) ==
    [latitude |-> latitude, longitude |-> longitude, acquired_at_utc |-> acquired_at_utc,
     frp |-> frp, confidence |-> confidence]

FireCatalog == <<
    FireRow(NumVal(12 * DegE4), NumVal(0), IsoVal(T0, FALSE, 0), NumVal(50 * Milli), NumVal(800)),
    FireRow(NumVal(40 * DegE4), NumVal(0), IsoVal(T0 - 3 * Hour, TRUE, 0 - 5 * Hour),
            NumVal(95968), NumVal(Milli)),
    FireRow(NumVal(5000 * DegE4), NumVal(0), IsoVal(T0 - 24 * Hour, FALSE, 0),
            NumVal(1000 * Milli), NullVal),
    FireRow(NumVal(0), NumVal(0), IsoVal(T0 - 24 * Hour - 1, FALSE, 0),
            NumVal(50 * Milli), NumVal(500)),
    FireRow(NullVal, NumVal(0), IsoVal(T0, FALSE, 0), NumVal(10 * Milli), NumVal(900)),
    FireRow(NumVal(DegUnit + 10 * DegE4), NumVal(0), TextTime, NumVal(30 * Milli), NumVal(300)),
    FireRow(NumVal(DegUnit + 10 * DegE4), NumVal(0), IsoVal(T0 + 2 * Hour, FALSE, 0),
            NumVal(0 - 3 * Milli), TextVal) >>

\* land-cover records: one for farm A, none for the others
CdlCatalog == << [point_id |-> "A", cdl_class_code |-> Some(69)] >>

\* fire_radius_km: the default 50.0 and 55.597 (the arc of half a degree)
RadiusSet == {50 * 1000, (5000 * ArcMetresE4) \div 10000}

\* the instants at which a run may read the clock
NowSet == {T0 + Hour, T0 + 3 * Hour}

\* A second family of inputs: a registry that is not in farm_id order, farms a
\* few hundredths of a degree apart (two of them less than 1e-6 degree apart),
\* two weather coordinates at the same distance north and south of a farm, and
\* the degenerate parameters radius 0 and window 0.
RegistryRow(farm_id, farm_name, latitude, longitude, crop_type, candidates) ==
    [farm_id |-> farm_id, farm_name |-> farm_name, latitude |-> latitude,
     longitude |-> longitude, crop_type |-> crop_type, candidates |-> candidates]

Ring == << <<0, 0>>, <<10, 0>>, <<10, 10>>, <<0, 0>> >>

GridRegistry == <<
    RegistryRow("E", "east", 300 * DegE4 + 4, 0, <<"c", "o", "r", "n">>,
                <<JsonGeometry("Polygon", <<>>),
                  JsonGeometry("MultiPolygon", << <<Ring>> >>),
                  JsonGeometry("Polygon", <<Ring>>)>>),
    RegistryRow("D", "delta", 0, 0, <<"c", "o", "r", "n">>,
                <<NoJson, JsonGeometry("Point", <<0, 0>>)>>),
    RegistryRow("F", "fallow", 300 * DegE4 + 1, 0, <<"V", "i", "n", "e", "y", "a", "r", "d">>,
                <<JsonGeometry("Polygon", <<>>)>>),
    RegistryRow("G", "grove", 340 * DegE4, 0, <<"a", "l", "m", "o", "n", "d">>, <<>>),
    RegistryRow("H", "hill", 3000 * DegE4, 0, <<"c", "o", "r", "n">>, <<NoJson>>) >>

GridFarmCatalog == [i \in 1..Len(GridRegistry) |-> LoadFarm(GridRegistry[i])]

South == 0 - 500 * DegE4
North == 500 * DegE4

GridWeatherCatalog == <<
    WeatherRow(NumVal(South), NumVal(0), IsoVal(T0 - Hour, TRUE, 0 - 3 * Hour),
               NumVal(12 * Milli), NumVal(20 * Milli), NumVal(50 * Milli)),
    WeatherRow(NumVal(North), NumVal(0), IsoVal(T0, FALSE, 0),
               NumVal(6 * Milli), NumVal(42 * Milli), NumVal(20 * Milli)),
    WeatherRow(NumVal(South), NumVal(0), IsoVal(T0, FALSE, 0),
               NumVal(0), NumVal(42 * Milli), NumVal(0)),
    WeatherRow(NumVal(South), NumVal(0), NullTime,
               NumVal(3 * Milli), NumVal(25 * Milli), NumVal(30 * Milli)),
    WeatherRow(NumVal(North), NumVal(0), AbsentTime,
               NumVal(4 * Milli), NumVal(26 * Milli), NumVal(40 * Milli)) >>

GridFireCatalog == <<
    FireRow(NumVal(0), NumVal(0), IsoVal(T0, FALSE, 0), NumVal(160 * Milli), NumVal(500)),
    FireRow(NumVal(0), NumVal(0), IsoVal(T0 - 1, FALSE, 0), NumVal(40 * Milli), NumVal(200)) >>

\* fire_radius_km: 0 and the default 50.0
GridRadiusSet == {0, 50 * 1000}

\* fire_window_hours: 0 and the default 24
GridWindowSet == {0, 24}

\* the sequences of at most `max` entries of a catalog, in catalog order
SubLists(catalog, min, max) ==
    { [k \in 1..Cardinality(S) |->
          catalog[CHOOSE i \in S : Cardinality({j \in S : j < i}) = k - 1]] :
      S \in {X \in SUBSET (1..Len(catalog)) : Cardinality(X) >= min /\ Cardinality(X) <= max} }

----------------------------------------------------------------------------
(* build_plot_tables *)

\* cdl_lookup = {row.get("point_id"): row ...}; cdl_lookup.get(farm_id)
CdlLookup(rows, farm_id) ==
    IF \E i \in 1..Len(rows) : rows[i].point_id = farm_id
    THEN Some(rows[CHOOSE i \in 1..Len(rows) :
                 /\ rows[i].point_id = farm_id
                 /\ \A j \in (i + 1)..Len(rows) : rows[j].point_id # farm_id])
    ELSE None

\* latest is None or feature_row["hour_utc"] > latest["hour_utc"]
KeepLatest(d, feature_row) ==
    IF ~DictHas(d, feature_row.farm_id)
       \/ StrGreater(feature_row.hour_utc, DictGet(d, feature_row.farm_id).hour_utc)
    THEN DictSet(d, feature_row.farm_id, feature_row)
    ELSE d

\* a test that takes every hour as observed
IsObserved_Always(event_hour, now) == TRUE

\* event_hour <= now_utc
IsObserved(event_hour, now) == event_hour <= now

\* feature rows as the loop body builds them, for the variants below
StepRow(farm, weather, event_hour) ==
    _compute_feature_row(farm, weather, event_hour,
        _match_fires_for_window(firms_rows, farm,
                                WindowStart(event_hour, fire_window_hours),
                                event_hour, fire_radius_km),
        _crop_factor(farm.crop_type), CdlLookup(cdl_rows, farm.farm_id), fire_radius_km)

\* a loop body that emits no row for an hour without matched fires
WeatherStep_SkipNoFire(acc, farm, weather) ==
    LET event_hour == _to_dt(weather.event_hour_utc)
    IN  IF event_hour = None THEN acc
        ELSE LET feature_row == StepRow(farm, weather, event_hour[1])
             IN  IF feature_row.fire_count_24h = 0 THEN acc
                 ELSE [chart |-> Append(acc.chart, feature_row),
                       latest |-> KeepLatest(acc.latest, feature_row),
                       observed |-> IF IsObserved(event_hour[1], now_utc)
                                    THEN KeepLatest(acc.observed, feature_row)
                                    ELSE acc.observed,
                       calls |-> acc.calls,
                       rows |-> acc.rows]

\* a loop body that leaves forecast hours out of the time series
WeatherStep_SkipForecast(acc, farm, weather) ==
    LET event_hour == _to_dt(weather.event_hour_utc)
    IN  IF event_hour = None \/ event_hour[1] > now_utc THEN acc
        ELSE LET feature_row == StepRow(farm, weather, event_hour[1])
             IN  [chart |-> Append(acc.chart, feature_row),
                  latest |-> KeepLatest(acc.latest, feature_row),
                  observed |-> KeepLatest(acc.observed, feature_row),
                  calls |-> acc.calls,
                  rows |-> acc.rows]

\* the body of `for weather in weather_series`, on the accumulators
\* acc = [chart, latest, observed, calls, rows]; rows is firms_rows as the
\* calls of the matcher so far have left it
WeatherStep(acc, farm, weather) ==
    LET event_hour == _to_dt(weather.event_hour_utc)
    IN  IF event_hour = None THEN acc
        ELSE LET window_start == WindowStart(event_hour[1], fire_window_hours)
                 matched_fires == _match_fires_for_window(acc.rows, farm, window_start,
                                                          event_hour[1], fire_radius_km)
                 feature_row == _compute_feature_row(farm, weather, event_hour[1],
                                    matched_fires, _crop_factor(farm.crop_type),
                                    CdlLookup(cdl_rows, farm.farm_id), fire_radius_km)
             IN  [chart |-> Append(acc.chart, feature_row),
                  latest |-> KeepLatest(acc.latest, feature_row),
                  observed |-> IF IsObserved(event_hour[1], now_utc)
                               THEN KeepLatest(acc.observed, feature_row)
                               ELSE acc.observed,
                  calls |-> Append(acc.calls,
                                   [farm_id |-> farm.farm_id,
                                    window_start |-> window_start,
                                    window_end |-> event_hour[1],
                                    matched |-> matched_fires]),
                  rows |-> RowsAfterMatch(acc.rows, farm, window_start,
                                          event_hour[1], fire_radius_km)]

RECURSIVE WeatherLoop(_, _, _, _)
WeatherLoop(acc, farm, series, n) ==
    IF n = 0 THEN acc
    ELSE WeatherStep(WeatherLoop(acc, farm, series, n - 1), farm, series[n])

\* status_source = latest_observed_by_farm if latest_observed_by_farm else latest_by_farm
StatusSource(observed, latest) == IF observed # <<>> THEN observed ELSE latest

StatusRows(source) == [i \in 1..Len(source) |-> _to_farm_status(source[i].value)]

Init ==
    /\ farms \in SubLists(FarmCatalog, 1, MaxFarms)
    /\ weather_rows \in SubLists(WeatherCatalog, 0, MaxWeather)
    /\ firms_rows \in SubLists(FireCatalog, 0, MaxFires)
    /\ cdl_rows = CdlCatalog
    /\ fire_radius_km \in RadiusSet
    /\ fire_window_hours = 24
    /\ now_utc = 0
    /\ pc = "idle"
    /\ farm_idx = 0
    /\ weather_by_coord = <<>>
    /\ map_fire_points = <<>>
    /\ chart_rows = <<>>
    /\ latest_by_farm = <<>>
    /\ latest_observed_by_farm = <<>>
    /\ result = None
    /\ prev_result = None
    /\ prev_now = 0
    /\ runs = 0
    /\ match_calls = <<>>

\* lines 30-43: read the clock, index the weather, build the fire points
Start ==
    /\ pc = "idle"
    /\ \E now \in NowSet : now >= now_utc /\ now_utc' = now
    /\ runs' = runs + 1
    /\ result' = None
    /\ chart_rows' = <<>>
    /\ latest_by_farm' = <<>>
    /\ latest_observed_by_farm' = <<>>
    /\ match_calls' = <<>>
    /\ farm_idx' = 1
    /\ IF GroupRaises(weather_rows)
       THEN /\ pc' = "failed"
            /\ weather_by_coord' = <<>>
            /\ map_fire_points' = <<>>
       ELSE /\ pc' = "farms"
            /\ weather_by_coord' = _group_weather_by_coord(weather_rows)
            /\ map_fire_points' = _build_map_fire_points(firms_rows)
    /\ UNCHANGED <<farms, firms_rows, weather_rows, cdl_rows, fire_radius_km,
                   fire_window_hours, prev_result, prev_now>>

\* lines 45-48: a farm with no weather series is skipped
SkipFarm ==
    /\ pc = "farms"
    /\ farm_idx <= Len(farms)
    /\ _nearest_weather_series(farms[farm_idx], weather_by_coord) = <<>>
    /\ farm_idx' = farm_idx + 1
    /\ UNCHANGED <<farms, firms_rows, weather_rows, cdl_rows, fire_radius_km,
                   fire_window_hours, now_utc, pc, weather_by_coord, map_fire_points,
                   chart_rows, latest_by_farm, latest_observed_by_farm, result,
                   prev_result, prev_now, runs, match_calls>>

\* line 233: min_distance_km / fire_radius_km raises ZeroDivisionError when the
\* radius is 0, for the first weather record that reaches _compute_feature_row
ScoreRaises(weather_series, radius) ==
    /\ radius = 0
    /\ \E k \in 1..Len(weather_series) : _to_dt(weather_series[k].event_hour_utc) # None

\* the call of _match_fires_for_window made before the scorer raises
CallBeforeRaise(farm, weather_series) ==
    LET k == CHOOSE i \in 1..Len(weather_series) :
                 /\ _to_dt(weather_series[i].event_hour_utc) # None
                 /\ \A j \in 1..(i - 1) : _to_dt(weather_series[j].event_hour_utc) = None
        event_hour == _to_dt(weather_series[k].event_hour_utc)[1]
        window_start == WindowStart(event_hour, fire_window_hours)
    IN  [farm_id |-> farm.farm_id,
         window_start |-> window_start,
         window_end |-> event_hour,
         matched |-> _match_fires_for_window(firms_rows, farm, window_start,
                                             event_hour, fire_radius_km)]

\* firms_rows as that call leaves it
RowsBeforeRaise(farm, weather_series) ==
    LET call == CallBeforeRaise(farm, weather_series)
    IN  RowsAfterMatch(firms_rows, farm, call.window_start, call.window_end,
                       fire_radius_km)

\* lines 45-81: one iteration of `for farm in farms`
ProcessFarm ==
    /\ pc = "farms"
    /\ farm_idx <= Len(farms)
    /\ LET farm == farms[farm_idx]
           weather_series == _nearest_weather_series(farm, weather_by_coord)
           acc == WeatherLoop([chart |-> chart_rows, latest |-> latest_by_farm,
                               observed |-> latest_observed_by_farm,
                               calls |-> match_calls,
                               rows |-> firms_rows],
                              farm, weather_series, Len(weather_series))
       IN  /\ weather_series # <<>>
           /\ IF ScoreRaises(weather_series, fire_radius_km)
              THEN /\ pc' = "failed"
                   /\ match_calls' = Append(match_calls,
                                            CallBeforeRaise(farm, weather_series))
                   /\ firms_rows' = RowsBeforeRaise(farm, weather_series)
                   /\ UNCHANGED <<chart_rows, latest_by_farm, latest_observed_by_farm>>
              ELSE /\ pc' = pc
                   /\ chart_rows' = acc.chart
                   /\ latest_by_farm' = acc.latest
                   /\ latest_observed_by_farm' = acc.observed
                   /\ match_calls' = acc.calls
                   /\ firms_rows' = acc.rows
    /\ farm_idx' = farm_idx + 1
    /\ UNCHANGED <<farms, weather_rows, cdl_rows, fire_radius_km,
                   fire_window_hours, now_utc, weather_by_coord, map_fire_points,
                   result, prev_result, prev_now, runs>>

\* lines 83-93: the status view, the boundaries, the two sorts, the return
Finish ==
    /\ pc = "farms"
    /\ farm_idx > Len(farms)
    /\ LET status_source == StatusSource(latest_observed_by_farm, latest_by_farm)
           map_farm_status == StatusRows(status_source)
       IN  result' = Some([map_fire_points |-> map_fire_points,
                           map_farm_status |-> SortStatus(map_farm_status),
                           map_farm_boundaries |->
                               _build_map_farm_boundaries_geojson(map_farm_status, farms),
                           chart_farm_timeseries |-> SortChart(chart_rows)])
    /\ pc' = "done"
    /\ UNCHANGED <<farms, firms_rows, weather_rows, cdl_rows, fire_radius_km,
                   fire_window_hours, now_utc, farm_idx, weather_by_coord,
                   map_fire_points, chart_rows, latest_by_farm,
                   latest_observed_by_farm, prev_result, prev_now, runs, match_calls>>

Next == Start \/ SkipFarm \/ ProcessFarm \/ Finish

Spec == Init /\ [][Next]_vars

\* The pipeline is run again on the same input files at a later clock reading;
\* the tables the earlier run returned are kept for comparison.
Rerun ==
    /\ pc = "done"
    /\ runs < MaxRuns
    /\ pc' = "idle"
    /\ prev_result' = result
    /\ prev_now' = now_utc
    /\ UNCHANGED <<farms, firms_rows, weather_rows, cdl_rows, fire_radius_km,
                   fire_window_hours, now_utc, farm_idx, weather_by_coord,
                   map_fire_points, chart_rows, latest_by_farm,
                   latest_observed_by_farm, result, runs, match_calls>>

InitRerun ==
    /\ Init
    /\ Len(firms_rows) <= 1
    /\ fire_radius_km = 50 * 1000

NextRerun == Start \/ SkipFarm \/ ProcessFarm \/ Finish \/ Rerun

SpecRerun == InitRerun /\ [][NextRerun]_vars

\* build_plot_tables on the second family of inputs
InitGrid ==
    /\ farms \in SubLists(GridFarmCatalog, 1, MaxFarms)
    /\ weather_rows \in SubLists(GridWeatherCatalog, 0, MaxWeather)
    /\ firms_rows \in SubLists(GridFireCatalog, 0, MaxFires)
    /\ cdl_rows = CdlCatalog
    /\ fire_radius_km \in GridRadiusSet
    /\ fire_window_hours \in GridWindowSet
    /\ now_utc = 0
    /\ pc = "idle"
    /\ farm_idx = 0
    /\ weather_by_coord = <<>>
    /\ map_fire_points = <<>>
    /\ chart_rows = <<>>
    /\ latest_by_farm = <<>>
    /\ latest_observed_by_farm = <<>>
    /\ result = None
    /\ prev_result = None
    /\ prev_now = 0
    /\ runs = 0
    /\ match_calls = <<>>

SpecGrid == InitGrid /\ [][Next]_vars

\* A third family of inputs: farms on the equator and on the prime meridian, a
\* few thousandths and a few hundredths of a degree from the point (0, 0), with
\* all weather and all fire detections at (0, 0); one farm has a registry
\* polygon, and two registry rows share the farm_id A.
CrossFarmCatalog == <<
    FarmAsset("P", "plain", 0, 0, <<"c", "o", "r", "n">>, None),
    FarmAsset("Q", "quarry", 0, 40 * DegE4, <<"c", "o", "r", "n">>, None),
    FarmAsset("R", "ridge", 300 * DegE4, 0, <<"a", "l", "m", "o", "n", "d">>, None),
    FarmAsset("S", "slope", 0, 300 * DegE4, <<"g", "r", "a", "p", "e">>, None),
    FarmAsset("U", "upland", 40 * DegE4, 0, <<"c", "o", "r", "n">>, None),
    FarmAsset("W", "west", 0, 0 - 40 * DegE4, <<"c", "o", "r", "n">>,
              Some([type |-> "Polygon", coordinates |-> <<Ring>>])),
    FarmAsset("A", "annex", 0, 0 - 300 * DegE4, <<"g", "r", "a", "p", "e">>, None),
    FarmAsset("A", "acre", 0 - 300 * DegE4, 0, <<"c", "o", "r", "n">>, None) >>

CrossWeatherCatalog == <<
    WeatherRow(NumVal(0), NumVal(0), IsoVal(T0, FALSE, 0),
               NumVal(10 * Milli), NumVal(35 * Milli), NumVal(20 * Milli)),
    WeatherRow(NumVal(0), NumVal(0), IsoVal(T0 + 2 * Hour, FALSE, 0),
               NumVal(6 * Milli), NumVal(42 * Milli), NumVal(20 * Milli)) >>

CrossFireCatalog == <<
    FireRow(NumVal(0), NumVal(0), IsoVal(T0, FALSE, 0), NumVal(160 * Milli), NumVal(500)),
    FireRow(NumVal(0), NumVal(0), IsoVal(T0 - Hour, FALSE, 0), NumVal(40 * Milli), NumVal(200)) >>

\* build_plot_tables on the third family of inputs
InitCross ==
    /\ farms \in SubLists(CrossFarmCatalog, 1, MaxFarms)
    /\ weather_rows \in SubLists(CrossWeatherCatalog, 0, MaxWeather)
    /\ firms_rows \in SubLists(CrossFireCatalog, 0, MaxFires)
    /\ cdl_rows = CdlCatalog
    /\ fire_radius_km = 50 * 1000
    /\ fire_window_hours = 24
    /\ now_utc = 0
    /\ pc = "idle"
    /\ farm_idx = 0
    /\ weather_by_coord = <<>>
    /\ map_fire_points = <<>>
    /\ chart_rows = <<>>
    /\ latest_by_farm = <<>>
    /\ latest_observed_by_farm = <<>>
    /\ result = None
    /\ prev_result = None
    /\ prev_now = 0
    /\ runs = 0
    /\ match_calls = <<>>

SpecCross == InitCross /\ [][Next]_vars

----------------------------------------------------------------------------
(* Properties *)

Range(seq) == {seq[i] : i \in 1..Len(seq)}

InUnit(x) == 0 <= x /\ x <= Micro

\* the instant an emitted hour_utc string denotes
HourOf(iso) == iso[1] * Day + iso[2] * Hour + iso[3] * 60 + iso[4]

\* C1: every emitted feature row has risk_score, fire_proximity, fire_intensity,
\* smoke_transport and heat_stress in [0, 1], whatever the frp, wind,
\* temperature and humidity (negative, very large or absent).
C1_ScoresInUnitInterval ==
    \A row \in Range(chart_rows) :
        /\ InUnit(row.risk_score)
        /\ InUnit(row.fire_proximity)
        /\ InUnit(row.fire_intensity)
        /\ InUnit(row.smoke_transport)
        /\ InUnit(row.heat_stress)

\* a row built from a negative wind, a temperature of 1000, a negative humidity
\* and an frp sum above 200, and a row built from absent weather fields
C1_Witness ==
    /\ \E w \in Range(weather_rows), row \in Range(chart_rows) :
          /\ w.wind_speed_10m.k = "num" /\ w.wind_speed_10m.v < 0
          /\ row.wind_speed_10m = w.wind_speed_10m.v
          /\ row.temperature_2m = 1000 * Milli
          /\ row.frp_sum_24h > 200 * Milli
          /\ row.fire_intensity = Micro
          /\ row.heat_stress = Micro
    /\ \E w \in Range(weather_rows), row \in Range(chart_rows) :
          /\ w.relative_humidity_2m = NullVal
          /\ row.hour_utc = IsoFormat(_to_dt(w.event_hour_utc)[1])
          /\ row.relative_humidity_2m = 100 * Milli

\* the step function of the spec on a score
LevelOf(score) ==
    IF score >= 670000 THEN "high" ELSE IF score >= 340000 THEN "medium" ELSE "low"

\* C2: in every emitted feature row, and in every status row of the returned
\* map_farm_status, risk_level is the level of the risk_score stored in that row
\* (high from 0.67, medium from 0.34, low below).
C2_LevelMatchesStoredScore ==
    /\ \A row \in Range(chart_rows) : row.risk_level = LevelOf(row.risk_score)
    /\ result # None =>
          \A row \in Range(result[1].map_farm_status) :
              row.risk_level = LevelOf(row.risk_score)

\* the crop factor as the claim words it: grape / vineyard, almond / walnut / nut
ClaimedCropFactor(crop_type) ==
    LET crop == Lower(Strip(crop_type))
    IN  IF crop \in {<<"g","r","a","p","e">>, <<"v","i","n","e","y","a","r","d">>}
        THEN 115
        ELSE IF crop \in {<<"a","l","m","o","n","d">>, <<"w","a","l","n","u","t">>,
                          <<"n","u","t">>}
        THEN 105
        ELSE 100

\* the crop factor with the plural forms the code also accepts
AmendedCropFactor(crop_type) ==
    LET crop == Lower(Strip(crop_type))
    IN  IF crop \in {<<"g","r","a","p","e">>, <<"g","r","a","p","e","s">>,
                     <<"v","i","n","e","y","a","r","d">>}
        THEN 115
        ELSE IF crop \in {<<"a","l","m","o","n","d">>, <<"w","a","l","n","u","t">>,
                          <<"n","u","t">>, <<"n","u","t","s">>}
        THEN 105
        ELSE 100

\* clip01(factor * (0.35 p + 0.25 i + 0.20 s + 0.20 h)) on the stored sub-scores
FormulaScore(row, factor) ==
    LET weighted == (35 * row.fire_proximity + 25 * row.fire_intensity
                     + 20 * row.smoke_transport + 20 * row.heat_stress) \div 100
    IN  Max2(0, Min2(Micro, (weighted * factor) \div 100))

\* The stored values are rounded to 4 decimals: the stored risk_score and the
\* formula on the stored sub-scores differ by at most 0.5e-4 (the score's own
\* rounding) plus 1.15 * 0.5e-4 (the sub-scores' rounding), under 1.1e-4.
WithinRounding(a, b) == Abs(a - b) <= 110

\* the spec's end-to-end scenario: grape farm, one fire 0.13 km away with
\* frp 50, wind 10, temperature 35, humidity 20, radius 50
IsScenarioRow(row) ==
    /\ fire_radius_km = 50 * 1000
    /\ Lower(Strip(row.crop_type)) = <<"g","r","a","p","e">>
    /\ row.fire_count_24h = 1
    /\ row.firms_min_distance_km = 133
    /\ row.frp_sum_24h = 50 * Milli
    /\ row.wind_speed_10m = 10 * Milli
    /\ row.temperature_2m = 35 * Milli
    /\ row.relative_humidity_2m = 20 * Milli

\* C3 as claimed: risk_score = clip01(crop_factor * (0.35 p + 0.25 i + 0.20 s +
\* 0.20 h)) with crop_factor 1.15 for grape / vineyard, 1.05 for almond /
\* walnut / nut and 1.0 for every other crop type; the scenario row is high.
C3_Original ==
    \A row \in Range(chart_rows) :
        /\ WithinRounding(row.risk_score, FormulaScore(row, ClaimedCropFactor(row.crop_type)))
        /\ IsScenarioRow(row) => row.risk_level = "high"

\* C3 amended: the same formula with crop_factor 1.15 for grape / grapes /
\* vineyard, 1.05 for almond / walnut / nut / nuts, 1.0 otherwise (trimmed,
\* case-insensitive); the scenario row is high.
C3_RiskFormula ==
    \A row \in Range(chart_rows) :
        /\ WithinRounding(row.risk_score, FormulaScore(row, AmendedCropFactor(row.crop_type)))
        /\ IsScenarioRow(row) => row.risk_level = "high"

\* the scenario row, and a row of a "nuts" farm with a positive score
C3_Witness ==
    /\ \E row \in Range(chart_rows) : IsScenarioRow(row) /\ row.risk_score > 700000
    /\ \E row \in Range(chart_rows) :
          /\ Lower(Strip(row.crop_type)) = <<"n","u","t","s">>
          /\ row.risk_score >= 210000

\* a detection of a call, without the distance_km the matcher added
Detection(enriched) == [f \in DOMAIN enriched \ {"distance_km"} |-> enriched[f]]

\* the detections the matcher is specified to keep, in input order
ExpectedMatches(call, lower_closed) ==
    LET farm == CHOOSE f \in Range(farms) : f.farm_id = call.farm_id
        Keep(row) ==
            /\ _to_dt(row.acquired_at_utc) # None
            /\ IF lower_closed
               THEN call.window_start <= _to_dt(row.acquired_at_utc)[1]
               ELSE call.window_start < _to_dt(row.acquired_at_utc)[1]
            /\ _to_dt(row.acquired_at_utc)[1] <= call.window_end
            /\ _to_float(row.latitude) # None
            /\ _to_float(row.longitude) # None
            /\ _haversine_km(farm.latitude, farm.longitude,
                             _to_float(row.latitude)[1], _to_float(row.longitude)[1])
                   <= fire_radius_km
    IN  SelectSeq(firms_rows, Keep)

\* C4: every call of _match_fires_for_window returns exactly the detections with
\* a parseable acquisition time t, window_start <= t <= window_end, numeric
\* latitude and longitude and distance <= radius_km (both boundaries included).
C4_MatcherExact ==
    \A call \in Range(match_calls) :
        [i \in 1..Len(call.matched) |-> Detection(call.matched[i])]
            = ExpectedMatches(call, TRUE)

\* one call keeps a detection acquired exactly at window_start and lying exactly
\* at the radius, and rejects a detection acquired one second earlier
C4_Witness ==
    \E call \in Range(match_calls) :
        /\ \E m \in Range(call.matched) :
              /\ _to_dt(m.acquired_at_utc)[1] = call.window_start
              /\ m.distance_km = fire_radius_km
        /\ \E row \in Range(firms_rows) :
              /\ _to_dt(row.acquired_at_utc) = Some(call.window_start - 1)
              /\ \A m \in Range(call.matched) : Detection(m) # row

\* C5 as claimed: every detection counted for a (farm, hour) row was acquired in
\* the half-open interval (event_hour - fire_window_hours, event_hour] and lies
\* within the radius.
C5_Original ==
    \A call \in Range(match_calls) : \A m \in Range(call.matched) :
        /\ _to_dt(m.acquired_at_utc)[1] > call.window_end - fire_window_hours * Hour
        /\ _to_dt(m.acquired_at_utc)[1] <= call.window_end
        /\ m.distance_km <= fire_radius_km

\* C5 amended: the interval is closed, [event_hour - fire_window_hours, event_hour].
C5_ClosedWindow ==
    \A call \in Range(match_calls) : \A m \in Range(call.matched) :
        /\ _to_dt(m.acquired_at_utc)[1] >= call.window_end - fire_window_hours * Hour
        /\ _to_dt(m.acquired_at_utc)[1] <= call.window_end
        /\ m.distance_km <= fire_radius_km

\* a counted detection acquired exactly fire_window_hours before the event hour,
\* and one acquired exactly at the event hour
C5_Witness ==
    /\ \E call \in Range(match_calls) : \E m \in Range(call.matched) :
          _to_dt(m.acquired_at_utc)[1] = call.window_end - fire_window_hours * Hour
    /\ \E call \in Range(match_calls) : \E m \in Range(call.matched) :
          _to_dt(m.acquired_at_utc)[1] = call.window_end

FarmIds == {farms[i].farm_id : i \in 1..Len(farms)}

\* the rows of a table that belong to a farm, in table order
RowsOf(table, farm_id) ==
    LET Mine(row) == row.farm_id = farm_id
    IN  SelectSeq(table, Mine)

\* the greatest event hour among a non-empty set of feature rows
LatestHour(rows) ==
    CHOOSE h \in {HourOf(row.hour_utc) : row \in rows} :
        \A row \in rows : HourOf(row.hour_utc) <= h

\* C6: when the run has returned, a farm with a feature row at an hour <= now has
\* exactly one row in map_farm_status, the projection of its feature row with the
\* greatest hour <= now; none of its forecast rows is its status.
C6_StatusIsLatestObserved ==
    pc = "done" =>
        \A id \in FarmIds :
            LET observed == {row \in Range(result[1].chart_farm_timeseries) :
                                row.farm_id = id /\ HourOf(row.hour_utc) <= now_utc}
                status == RowsOf(result[1].map_farm_status, id)
            IN  observed # {} =>
                    /\ Len(status) = 1
                    /\ HourOf(status[1].hour_utc) = LatestHour(observed)
                    /\ \E row \in observed : status[1] = _to_farm_status(row)

\* a farm with an observed and a later forecast row in the time series, whose
\* status is the observed one
C6_Witness ==
    /\ pc = "done"
    /\ \E id \in FarmIds :
          \E r1, r2 \in Range(result[1].chart_farm_timeseries) :
              /\ r1.farm_id = id /\ r2.farm_id = id
              /\ HourOf(r1.hour_utc) <= now_utc
              /\ HourOf(r2.hour_utc) > now_utc
              /\ RowsOf(result[1].map_farm_status, id) = <<_to_farm_status(r1)>>

\* C7: the fallback is per farm: when the run has returned, every farm with a
\* feature row has exactly one row in map_farm_status, and a farm whose rows are
\* all later than now has its latest row there, whatever the other farms have.
C7_FallbackPerFarm ==
    pc = "done" =>
        \A id \in FarmIds :
            LET mine == {row \in Range(result[1].chart_farm_timeseries) : row.farm_id = id}
                status == RowsOf(result[1].map_farm_status, id)
            IN  mine # {} =>
                    /\ Len(status) = 1
                    /\ (\A row \in mine : HourOf(row.hour_utc) > now_utc)
                          => HourOf(status[1].hour_utc) = LatestHour(mine)

\* the global fallback at work: no farm has an observed row, and each farm's
\* status is its latest forecast row
C7_FallbackWitness ==
    /\ pc = "done"
    /\ result[1].chart_farm_timeseries # <<>>
    /\ \A row \in Range(result[1].chart_farm_timeseries) : HourOf(row.hour_utc) > now_utc
    /\ Len(result[1].map_farm_status) = Cardinality(FarmIds)

Parseable(weather) == _to_dt(weather.event_hour_utc) # None

\* the feature row was built from this weather record
BuiltFrom(row, weather) ==
    /\ row.hour_utc = IsoFormat(_to_dt(weather.event_hour_utc)[1])
    /\ row.wind_speed_10m = OrDefault(_to_float(weather.wind_speed_10m), 0)
    /\ row.temperature_2m = OrDefault(_to_float(weather.temperature_2m), 0)
    /\ row.relative_humidity_2m = OrDefault(_to_float(weather.relative_humidity_2m), 100 * Milli)

\* C8: when the run has returned, chart_farm_timeseries holds, for each farm, as
\* many rows as its nearest weather series has records with a parseable hour, one
\* built from each such record, and no row of anything else; a farm with an empty
\* nearest series has no row in the time series, the status or the boundaries.
C8_OneRowPerFarmHour ==
    pc = "done" =>
        /\ \A row \in Range(result[1].chart_farm_timeseries) : row.farm_id \in FarmIds
        /\ \A i \in 1..Len(farms) :
              LET series == _nearest_weather_series(farms[i], weather_by_coord)
                  parsed == SelectSeq(series, Parseable)
                  rows == RowsOf(result[1].chart_farm_timeseries, farms[i].farm_id)
              IN  /\ Len(rows) = Len(parsed)
                  /\ \A k \in 1..Len(parsed) : \E row \in Range(rows) : BuiltFrom(row, parsed[k])
                  /\ series = <<>> =>
                        /\ RowsOf(result[1].map_farm_status, farms[i].farm_id) = <<>>
                        /\ \A f \in Range(result[1].map_farm_boundaries.features) :
                              f.properties.farm_id # farms[i].farm_id

\* a farm whose nearest series has a record with an unparseable hour and a
\* record without matched fires: the time series holds the one row of the latter
C8_Witness ==
    /\ pc = "done"
    /\ \E i \in 1..Len(farms) :
          LET series == _nearest_weather_series(farms[i], weather_by_coord)
              rows == RowsOf(result[1].chart_farm_timeseries, farms[i].farm_id)
          IN  /\ Len(series) = 2
              /\ \E w \in Range(series) : ~Parseable(w)
              /\ Len(rows) = 1
              /\ rows[1].fire_count_24h = 0

\* C9 as claimed: a second run on the same inputs returns the same four tables
\* as the first, whatever the instants at which the two runs read the clock.
C9_Original ==
    (pc = "done" /\ prev_result # None) => result = prev_result

\* C9 amended: the result is a function of the inputs and of the instant now:
\* two runs on the same inputs return the same map_fire_points and the same
\* chart_farm_timeseries whatever the clock, and the same four tables when they
\* read the same instant.
C9_DeterministicGivenNow ==
    (pc = "done" /\ prev_result # None) =>
        /\ result[1].map_fire_points = prev_result[1].map_fire_points
        /\ result[1].chart_farm_timeseries = prev_result[1].chart_farm_timeseries
        /\ now_utc = prev_now => result = prev_result

\* two runs at different instants that return the same non-empty time series and
\* different status tables
C9_Witness ==
    /\ pc = "done"
    /\ prev_result # None
    /\ now_utc # prev_now
    /\ result[1].chart_farm_timeseries # <<>>
    /\ result[1].chart_farm_timeseries = prev_result[1].chart_farm_timeseries
    /\ result[1].map_farm_status # prev_result[1].map_farm_status

\* C10: the returned map_farm_status is in non-increasing order of risk_score.
C10_StatusSortedDescending ==
    pc = "done" =>
        \A i \in 1..(Len(result[1].map_farm_status) - 1) :
            result[1].map_farm_status[i].risk_score
                >= result[1].map_farm_status[i + 1].risk_score

\* two status rows that the sort had to swap: the farm that comes later in the
\* registry has the higher score and comes first
C10_Witness ==
    /\ pc = "done"
    /\ Len(result[1].map_farm_status) = 2
    /\ Len(farms) = 2
    /\ result[1].map_farm_status[1].farm_id = farms[2].farm_id
    /\ result[1].map_farm_status[2].farm_id = farms[1].farm_id
    /\ result[1].map_farm_status[1].risk_score > result[1].map_farm_status[2].risk_score

\* C11: the returned chart_farm_timeseries is in ascending order of (farm_id,
\* event hour): of two rows, the earlier one in the table has the smaller
\* farm_id, or the same farm_id and an event instant that is not later (so the
\* rows of a farm are contiguous and in time order).
C11_ChartSortedByFarmAndHour ==
    pc = "done" =>
        LET table == result[1].chart_farm_timeseries
        IN  /\ Len(table) = Len(chart_rows)
            /\ \A i, j \in 1..Len(table) :
                  i < j =>
                      \/ IdRank(table[i].farm_id) < IdRank(table[j].farm_id)
                      \/ /\ table[i].farm_id = table[j].farm_id
                         /\ HourOf(table[i].hour_utc) <= HourOf(table[j].hour_utc)

\* a run whose rows were appended out of order both ways: a farm that comes
\* later in farm_id order was processed first, and a farm's series had a later
\* instant before an earlier one (the series is sorted by the raw timestamp text)
C11_Witness ==
    /\ pc = "done"
    /\ \E i, j \in 1..Len(chart_rows) :
          /\ i < j
          /\ chart_rows[i].farm_id = chart_rows[j].farm_id
          /\ HourOf(chart_rows[i].hour_utc) > HourOf(chart_rows[j].hour_utc)
    /\ \E i, j \in 1..Len(chart_rows) :
          /\ i < j
          /\ IdRank(chart_rows[i].farm_id) > IdRank(chart_rows[j].farm_id)
    /\ Len(result[1].chart_farm_timeseries) = 4

\* the registry row of a farm of the second input family
RegistryOf(farm_id) ==
    GridRegistry[CHOOSE i \in 1..Len(GridRegistry) : GridRegistry[i].farm_id = farm_id]

\* the registry polygons of a row that are valid: JSON objects with type tag
\* Polygon or MultiPolygon and a non-empty coordinate list, in column order
ValidPolygons(row) ==
    LET Valid(c) == /\ c.k = "json"
                    /\ c.value.type = "Polygon" \/ c.value.type = "MultiPolygon"
                    /\ c.value.coordinates # <<>>
    IN  SelectSeq(row.candidates, Valid)

FeaturesOf(farm_id) ==
    LET Mine(f) == f.properties.farm_id = farm_id
    IN  SelectSeq(result[1].map_farm_boundaries.features, Mine)

\* C12: when the run has returned, every status row has one boundary feature; if
\* the farm's registry row holds a valid Polygon / MultiPolygon the feature
\* carries exactly that polygon (the first valid one in column order) and the
\* registry-supplied tag (boundary_source "farm_csv_geojson"), otherwise it is
\* tagged as an inferred grid cell (boundary_source "inferred_grid_cell"); every
\* emitted geometry is a Polygon or MultiPolygon with coordinates.
C12_BoundarySourceAndGeometry ==
    pc = "done" =>
        /\ Len(result[1].map_farm_boundaries.features) = Len(result[1].map_farm_status)
        /\ \A row \in Range(result[1].map_farm_status) :
              LET polygons == ValidPolygons(RegistryOf(row.farm_id))
                  features == FeaturesOf(row.farm_id)
              IN  /\ Len(features) = 1
                  /\ IF polygons # <<>>
                     THEN /\ features[1].geometry = polygons[1].value
                          /\ features[1].properties.boundary_source = "farm_csv_geojson"
                     ELSE features[1].properties.boundary_source = "inferred_grid_cell"
        /\ \A f \in Range(result[1].map_farm_boundaries.features) :
              /\ f.geometry.type \in {"Polygon", "MultiPolygon"}
              /\ f.geometry.coordinates # <<>>

\* a returned collection with a registry-supplied MultiPolygon of a row whose
\* first geometry column holds a Polygon without coordinates, and an inferred
\* cell for a farm whose only geometry column holds an invalid geometry
C12_Witness ==
    /\ pc = "done"
    /\ \E f \in Range(result[1].map_farm_boundaries.features) :
          /\ f.properties.boundary_source = "farm_csv_geojson"
          /\ f.geometry.type = "MultiPolygon"
          /\ RegistryOf(f.properties.farm_id).candidates[1].value.type = "Polygon"
    /\ \E f \in Range(result[1].map_farm_boundaries.features) :
          /\ f.properties.boundary_source = "inferred_grid_cell"
          /\ \E c \in Range(RegistryOf(f.properties.farm_id).candidates) : c.k = "json"

\* the multiple of 1e-6 degree nearest to a coordinate (on a tie the even one)
NearestMicroDegree(v) ==
    CHOOSE m \in {10 * k : k \in ((v \div 10) - 1)..((v \div 10) + 1)} :
        \/ 2 * Abs(v - m) < 10
        \/ 2 * Abs(v - m) = 10 /\ (m \div 10) % 2 = 0

\* the step the claim gives for the coordinates of the status rows: the smallest
\* positive gap between the distinct rounded values, clamped to [0.01, 0.1], or
\* 0.05 when there are fewer than two distinct values
ClaimedStep(coordinates) ==
    LET distinct == {NearestMicroDegree(v) : v \in coordinates}
        gaps == {b - a : <<a, b>> \in {<<x, y>> \in distinct \X distinct : x < y}}
        smallest == CHOOSE g \in gaps : \A h \in gaps : g <= h
    IN  IF Cardinality(distinct) < 2 THEN DegUnit \div 20
        ELSE IF smallest < DegUnit \div 100 THEN DegUnit \div 100
        ELSE IF smallest > DegUnit \div 10 THEN DegUnit \div 10
        ELSE smallest

\* ring (points <<lon, lat>> in 1e-9 degree) is a closed axis-aligned rectangle
\* of 5 points centred on (lat, lon) (in 1e-7 degree) with half-extents 0.42
\* times the steps (in 1e-7 degree)
IsCellAround(ring, lat, lon, lat_step, lon_step) ==
    /\ Len(ring) = 5
    /\ ring[1] = ring[5]
    /\ \A k \in 1..4 : ring[k][1] = ring[k + 1][1] \/ ring[k][2] = ring[k + 1][2]
    /\ Cardinality({ring[k] : k \in 1..4}) = 4
    /\ {ring[k][1] : k \in 1..5} = {lon * 100 - 42 * lon_step, lon * 100 + 42 * lon_step}
    /\ {ring[k][2] : k \in 1..5} = {lat * 100 - 42 * lat_step, lat * 100 + 42 * lat_step}

C14_WindowZeroMatchesNothing ==
    (fire_window_hours = 0 /\ fire_radius_km > 0) =>
        /\ \A call \in Range(match_calls) : call.matched = <<>>
        /\ \A row \in Range(chart_rows) : row.fire_count_24h = 0

\* what the code does with a window of 0: a detection acquired exactly at the
\* event hour is matched and counted, one acquired a second earlier is not
C14_Witness ==
    /\ fire_window_hours = 0
    /\ fire_radius_km > 0
    /\ \E row \in Range(chart_rows) :
          /\ row.fire_count_24h = 1
          /\ \E d \in Range(firms_rows) : HourOf(row.hour_utc) = _to_dt(d.acquired_at_utc)[1]
          /\ \E d \in Range(firms_rows) : HourOf(row.hour_utc) = _to_dt(d.acquired_at_utc)[1] + 1

\* C15: with fire_radius_km = 0 (and weather records whose sort does not raise)
\* the run does not fail, and every emitted feature row has fire_count_24h = 0
\* and fire_proximity = 0, also when a detection lies at a farm's coordinates.
C15_RadiusZeroCompletes ==
    (fire_radius_km = 0 /\ ~GroupRaises(weather_rows)) =>
        /\ pc # "failed"
        /\ \A row \in Range(chart_rows) :
              row.fire_count_24h = 0 /\ row.fire_proximity = 0

\* what the code does with a radius of 0: the run fails at the first weather
\* record of a farm, here with a detection at the farm's coordinates that the
\* matcher had matched
C15_Witness ==
    /\ fire_radius_km = 0
    /\ pc = "failed"
    /\ chart_rows = <<>>
    /\ \E call \in Range(match_calls) : \E m \in Range(call.matched) : m.distance_km = 0

\* C16: a weather or fire record whose timestamp or coordinate is null, absent
\* or unparseable does not abort the run (radius positive): the run does not
\* fail, and when it has returned each farm has one row for every record of its
\* nearest weather series that has a parseable hour, the ill-formed records of
\* the same coordinate group left out.
C16_BadRecordDropped ==
    fire_radius_km > 0 =>
        /\ pc # "failed"
        /\ pc = "done" =>
              \A i \in 1..Len(farms) :
                  LET series == _nearest_weather_series(farms[i], weather_by_coord)
                  IN  Len(RowsOf(result[1].chart_farm_timeseries, farms[i].farm_id))
                          = Len(SelectSeq(series, Parseable))

\* what the code does with a null event_hour_utc beside a well-formed record of
\* the same coordinate: the run fails before any farm is processed
C16_Witness ==
    /\ fire_radius_km > 0
    /\ pc = "failed"
    /\ \E w1, w2 \in Range(weather_rows) :
          /\ w1.event_hour_utc.k = "null"
          /\ Parseable(w2)
          /\ w1.latitude = w2.latitude /\ w1.longitude = w2.longitude

\* a detection has numeric latitude and longitude
HasPoint(detection) == detection.latitude.k = "num" /\ detection.longitude.k = "num"

\* a JSON field as a number, a missing or non-numeric one counted as 0
NumberOrZero(field) == IF field.k = "num" THEN field.v ELSE 0

\* 0.6 * clip01(frp / 20) + 0.4 * clip01(confidence) against 0.67 and 0.34
ClaimedHint(detection) ==
    LET frp_term == Max2(0, Min2(Micro, NumberOrZero(detection.frp) * 50))
        confidence_term == Max2(0, Min2(Micro, NumberOrZero(detection.confidence) * 1000))
        score == (60 * frp_term + 40 * confidence_term) \div 100
    IN  IF score >= 670000 THEN "high" ELSE IF score >= 340000 THEN "medium" ELSE "low"

\* C17: map_fire_points holds one entry, in input order, for every detection
\* with numeric latitude and longitude, whatever the farms, the radius, the
\* window and the detection's acquisition time; the entry's risk_hint is high /
\* medium / low by the thresholds 0.67 and 0.34 on 0.6*clip01(frp/20) +
\* 0.4*clip01(confidence), a missing frp or confidence counted as 0.
C17_FirePoints ==
    pc \in {"farms", "done"} =>
        LET located == SelectSeq(firms_rows, HasPoint)
            points == IF pc = "done" THEN result[1].map_fire_points ELSE map_fire_points
        IN  /\ Len(points) = Len(located)
            /\ \A k \in 1..Len(located) :
                  /\ points[k].lat = located[k].latitude.v
                  /\ points[k].lon = located[k].longitude.v
                  /\ points[k].time_utc = located[k].acquired_at_utc
                  /\ points[k].risk_hint = ClaimedHint(located[k])

\* a returned table whose only entry is the second of two detections: the first
\* has no latitude, the second has a timestamp that does not parse (so that no
\* feature row counts it) and the hint high
C17_Witness ==
    /\ pc = "done"
    /\ Len(firms_rows) = 2
    /\ ~HasPoint(firms_rows[1])
    /\ _to_dt(firms_rows[2].acquired_at_utc) = None
    /\ Len(result[1].map_fire_points) = 1
    /\ result[1].map_fire_points[1].risk_hint = "high"
    /\ chart_rows # <<>>
    /\ \A row \in Range(chart_rows) : row.fire_count_24h = 0

\* clip01((temperature - 30) / 12) * clip01((60 - h) / 40), rounded as stored
ClaimedHeatStress(temperature, h) ==
    Round4(MulMicro(Max2(0, Min2(Micro, ((temperature - 30 * Milli) * 1000) \div 12)),
                    Max2(0, Min2(Micro, (60 * Milli - h) * 25))))

\* C18: the humidity default applies only to an absent or non-numeric field: when
\* the run has returned, for every farm and every record of its weather series
\* with a parseable hour and a numeric relative humidity h (0 included), the
\* farm's row for that hour has relative_humidity_2m = h and heat_stress =
\* clip01((temperature - 30)/12) * clip01((60 - h)/40).
C18_NumericHumidityUsed ==
    pc = "done" =>
        \A i \in 1..Len(farms) :
            \A w \in Range(_nearest_weather_series(farms[i], weather_by_coord)) :
                (Parseable(w) /\ w.relative_humidity_2m.k = "num") =>
                    \E row \in Range(RowsOf(result[1].chart_farm_timeseries, farms[i].farm_id)) :
                        /\ row.hour_utc = IsoFormat(_to_dt(w.event_hour_utc)[1])
                        /\ row.relative_humidity_2m = w.relative_humidity_2m.v
                        /\ row.heat_stress
                               = ClaimedHeatStress(NumberOrZero(w.temperature_2m),
                                                   w.relative_humidity_2m.v)

\* what the code does with a humidity of 0 at 42 degrees: the row carries the
\* default humidity 100 and heat_stress 0
C18_Witness ==
    /\ pc = "done"
    /\ \E w \in Range(weather_rows) :
          /\ w.relative_humidity_2m = NumVal(0)
          /\ w.temperature_2m = NumVal(42 * Milli)
          /\ \E row \in Range(result[1].chart_farm_timeseries) :
                /\ row.hour_utc = IsoFormat(_to_dt(w.event_hour_utc)[1])
                /\ row.temperature_2m = 42 * Milli
                /\ row.relative_humidity_2m = 100 * Milli
                /\ row.heat_stress = 0

\* the sub-scores of a feature row before they are rounded for storage, from the
\* fire and weather values the row records
SubScores(row) ==
    LET fire_proximity == FireProximity(row.firms_min_distance_km, fire_radius_km)
    IN  [fire_proximity |-> fire_proximity,
         fire_intensity |-> FireIntensity(row.frp_sum_24h),
         smoke_transport |-> SmokeTransport(fire_proximity, row.wind_speed_10m),
         heat_stress |-> HeatStress(row.temperature_2m, row.relative_humidity_2m)]

DriverOrder == <<"fire_proximity", "fire_intensity", "smoke_transport", "heat_stress">>

\* the weights 0.35, 0.25, 0.20, 0.20 in percent
DriverWeight ==
    [fire_proximity |-> 35, fire_intensity |-> 25, smoke_transport |-> 20, heat_stress |-> 20]

\* C19: in every feature row, top_driver names a sub-score whose weighted
\* contribution no other contribution exceeds, and every sub-score that comes
\* before it in the order fire_proximity, fire_intensity, smoke_transport,
\* heat_stress has a strictly smaller contribution (so a row with all
\* contributions 0 has top_driver fire_proximity).
C19_TopDriver ==
    \A row \in Range(chart_rows) :
        LET sub == SubScores(row)
            Contribution(name) == DriverWeight[name] * sub[name]
        IN  /\ \A name \in Range(DriverOrder) : row[name] = Round4(sub[name])
            /\ \E k \in 1..4 :
                  /\ row.top_driver = DriverOrder[k]
                  /\ \A j \in 1..4 :
                        Contribution(DriverOrder[j]) <= Contribution(row.top_driver)
                  /\ \A j \in 1..(k - 1) :
                        Contribution(DriverOrder[j]) < Contribution(row.top_driver)

\* a row in which fire_intensity (0.25 * 0.8) and heat_stress (0.20 * 1.0) have
\* the same, largest, non-zero contribution, with top_driver fire_intensity
C19_Witness ==
    \E row \in Range(chart_rows) :
        /\ row.top_driver = "fire_intensity"
        /\ row.fire_intensity = 800000
        /\ row.heat_stress = Micro
        /\ 35 * row.fire_proximity < 20 * row.heat_stress
        /\ row.fire_proximity > 0

\* the source coordinate of a weather record with numeric latitude and longitude
CoordOf(w) == <<w.latitude.v, w.longitude.v>>

\* the position in the weather input at which a coordinate is first seen
FirstSeen(coord) ==
    CHOOSE i \in 1..Len(weather_rows) :
        /\ HasPoint(weather_rows[i]) /\ CoordOf(weather_rows[i]) = coord
        /\ \A j \in 1..(i - 1) :
              ~(HasPoint(weather_rows[j]) /\ CoordOf(weather_rows[j]) = coord)

DistanceTo(farm, coord) ==
    _haversine_km(farm.latitude, farm.longitude, coord[1], coord[2])

\* C20: once the weather is indexed, the series _nearest_weather_series returns
\* for a farm is empty exactly when the weather input has no source coordinate;
\* otherwise it holds the records of one source coordinate, no other coordinate
\* is nearer to the farm, and every other coordinate at the same distance is
\* first seen later in the weather input.
C20_NearestSeries ==
    pc \in {"farms", "done"} =>
        \A farm \in Range(farms) :
            LET chosen == _nearest_weather_series(farm, weather_by_coord)
                coords == {CoordOf(w) : w \in {x \in Range(weather_rows) : HasPoint(x)}}
            IN  /\ chosen = <<>> <=> coords = {}
                /\ coords # {} =>
                      \E c \in coords :
                          /\ Range(chosen) = {w \in Range(weather_rows) :
                                                 HasPoint(w) /\ CoordOf(w) = c}
                          /\ \A other \in coords \ {c} :
                                \/ DistanceTo(farm, c) < DistanceTo(farm, other)
                                \/ /\ DistanceTo(farm, c) = DistanceTo(farm, other)
                                   /\ FirstSeen(c) < FirstSeen(other)

\* a farm at the same distance from two source coordinates: the weather input
\* names the northern one first, then the southern one, and the farm gets the
\* northern series
C20_Witness ==
    /\ pc \in {"farms", "done"}
    /\ Len(weather_rows) = 2
    /\ CoordOf(weather_rows[1]) = <<North, 0>>
    /\ CoordOf(weather_rows[2]) = <<South, 0>>
    /\ \E farm \in Range(farms) :
          /\ DistanceTo(farm, <<North, 0>>) = DistanceTo(farm, <<South, 0>>)
          /\ _nearest_weather_series(farm, weather_by_coord) = <<weather_rows[1]>>

----------------------------------------------------------------------------
(* The farm loop taken in another order *)

\* lines 45-81 run over farm_list from the empty accumulators: a farm with no
\* weather series is skipped, the others go through the weather loop
RECURSIVE FarmLoop(_, _)
FarmLoop(farm_list, n) ==
    IF n = 0
    THEN [chart |-> <<>>, latest |-> <<>>, observed |-> <<>>, calls |-> <<>>,
          rows |-> firms_rows]
    ELSE LET acc == FarmLoop(farm_list, n - 1)
             farm == farm_list[n]
             weather_series == _nearest_weather_series(farm, weather_by_coord)
         IN  IF weather_series = <<>> THEN acc
             ELSE WeatherLoop(acc, farm, weather_series, Len(weather_series))

\* lines 83-93 on the accumulators the farm loop leaves
ReturnTables(acc, farm_list) ==
    LET status_source == StatusSource(acc.observed, acc.latest)
        map_farm_status == StatusRows(status_source)
    IN  [map_fire_points |-> map_fire_points,
         map_farm_status |-> SortStatus(map_farm_status),
         map_farm_boundaries |->
             _build_map_farm_boundaries_geojson(map_farm_status, farm_list),
         chart_farm_timeseries |-> SortChart(acc.chart)]

\* the four tables of a run whose loop visits the farms in the order farm_list
TablesInOrder(farm_list) ==
    ReturnTables(FarmLoop(farm_list, Len(farm_list)), farm_list)

\* the orders in which the farms of the registry can be visited
Orders(farm_list) ==
    {[i \in 1..Len(farm_list) |-> farm_list[p[i]]] :
        p \in {f \in [1..Len(farm_list) -> 1..Len(farm_list)] :
                  \A i, j \in 1..Len(farm_list) : f[i] = f[j] => i = j}}

\* C21: the four tables a completed run returns are the tables of the farm loop
\* taken in any other order of the same registry, row order and feature order
\* included.
C21_FarmOrderIndependent ==
    pc = "done" =>
        \A other \in Orders(farms) : TablesInOrder(other) = result[1]

\* a completed run over two farms that both have a status row, whose tables are
\* those of the loop in registry order
C21_Witness ==
    /\ pc = "done"
    /\ Len(farms) = 2
    /\ Len(result[1].map_farm_status) = 2
    /\ TablesInOrder(farms) = result[1]

----------------------------------------------------------------------------
(* Inferred cells of neighbouring farms *)

\* the status row a boundary feature was built from
StatusRowOf(feature) ==
    CHOOSE row \in Range(result[1].map_farm_status) :
        row.farm_id = feature.properties.farm_id

\* the inferred cells among the returned boundary features
InferredCells ==
    {f \in Range(result[1].map_farm_boundaries.features) :
        f.properties.boundary_source = "inferred_grid_cell"}

\* the extent of a ring along axis k (1 longitude, 2 latitude)
Lowest(ring, k) ==
    CHOOSE v \in {ring[i][k] : i \in 1..Len(ring)} : \A i \in 1..Len(ring) : v <= ring[i][k]

Highest(ring, k) ==
    CHOOSE v \in {ring[i][k] : i \in 1..Len(ring)} : \A i \in 1..Len(ring) : v >= ring[i][k]

\* two rectangles share no point, edges included: along some axis one ends
\* strictly before the other begins
Apart(ring1, ring2) ==
    \E k \in {1, 2} :
        \/ Highest(ring1, k) < Lowest(ring2, k)
        \/ Highest(ring2, k) < Lowest(ring1, k)

\* C22 as claimed: the inferred rectangles of any two status rows whose points
\* differ share no point, interiors and edges alike.
C22_Original ==
    pc = "done" =>
        \A f, g \in InferredCells :
            LET a == StatusRowOf(f)
                b == StatusRowOf(g)
            IN  (a.lat # b.lat \/ a.lon # b.lon) =>
                    Apart(f.geometry.coordinates[1], g.geometry.coordinates[1])

\* C22 (amended): the inferred rectangles of two status rows share no point,
\* interiors and edges alike, when the two points are at least 0.01 degree apart
\* in latitude or at least 0.01 degree apart in longitude.
C22_CellsApart ==
    pc = "done" =>
        \A f, g \in InferredCells :
            LET a == StatusRowOf(f)
                b == StatusRowOf(g)
            IN  (Abs(a.lat - b.lat) >= DegUnit \div 100
                 \/ Abs(a.lon - b.lon) >= DegUnit \div 100) =>
                    Apart(f.geometry.coordinates[1], g.geometry.coordinates[1])

\* two inferred cells of farms 0.03 degree apart in latitude and 0.03 degree
\* apart in longitude, which share no point
C22_Witness ==
    /\ pc = "done"
    /\ \E f, g \in InferredCells :
          /\ StatusRowOf(f).lat - StatusRowOf(g).lat = 300 * DegE4
          /\ StatusRowOf(g).lon - StatusRowOf(f).lon = 300 * DegE4
          /\ Apart(f.geometry.coordinates[1], g.geometry.coordinates[1])

----------------------------------------------------------------------------
(* The matcher and its input records *)

\* matched is the input rows at increasing positions, each with the distance
\* from the farm added as distance_km
KeptInInputOrder(call) ==
    LET farm == CHOOSE f \in Range(farms) : f.farm_id = call.farm_id
    IN  \E idx \in [1..Len(call.matched) -> 1..Len(firms_rows)] :
            /\ \A i, j \in 1..Len(call.matched) : i < j => idx[i] < idx[j]
            /\ \A i \in 1..Len(call.matched) :
                  LET row == firms_rows[idx[i]]
                  IN  /\ Detection(call.matched[i]) = row
                      /\ call.matched[i].distance_km
                             = _haversine_km(farm.latitude, farm.longitude,
                                             _to_float(row.latitude)[1],
                                             _to_float(row.longitude)[1])

\* C23: every call of _match_fires_for_window returns kept detections that are
\* input records at increasing input positions, each carrying its distance to
\* the farm as distance_km; no step of a run changes the input detection
\* records, so the fire points stay those of the records as read.
C23_MatcherLeavesInput ==
    /\ [](\A call \in Range(match_calls) : KeptInInputOrder(call))
    /\ [](pc \in {"farms", "done"} => map_fire_points = _build_map_fire_points(firms_rows))
    /\ [][firms_rows' = firms_rows]_vars

\* a completed run with two detections and two calls of the matcher: the first
\* call keeps only the second detection, a later call keeps a detection too, and
\* the input records carry no distance
C23_Witness ==
    /\ pc = "done"
    /\ Len(firms_rows) = 2
    /\ Len(match_calls) >= 2
    /\ Len(match_calls[1].matched) = 1
    /\ Detection(match_calls[1].matched[1]) = firms_rows[2]
    /\ \E k \in 2..Len(match_calls) : match_calls[k].matched # <<>>
    /\ \A row \in Range(firms_rows) : "distance_km" \notin DOMAIN row

----------------------------------------------------------------------------
(* The status table as a view of the time series *)

\* the fields a status row shares with a row of the time series
SharedFields == {"farm_id", "hour_utc", "risk_score", "risk_level", "top_driver",
                 "cdl_class_code"}

\* the fields a boundary feature copies from its status row
SnapshotFields == {"farm_id", "farm_name", "crop_type", "risk_score", "risk_level",
                   "top_driver", "hour_utc", "cdl_class_code"}

AgreeOn(fields, a, b) == \A f \in fields : a[f] = b[f]

\* C24: when the run has returned, map_farm_status has at most one row per
\* farm_id, every status row agrees on farm_id, hour_utc, risk_score,
\* risk_level, top_driver and cdl_class_code with a row of
\* chart_farm_timeseries, and map_farm_boundaries has at most one feature per
\* status row, each with the properties of its status row.
C24_StatusIsViewOfSeries ==
    pc = "done" =>
        LET status == result[1].map_farm_status
            series == result[1].chart_farm_timeseries
            features == result[1].map_farm_boundaries.features
        IN  /\ \A i, j \in 1..Len(status) : i # j => status[i].farm_id # status[j].farm_id
            /\ \A row \in Range(status) :
                  \E c \in Range(series) : AgreeOn(SharedFields, row, c)
            /\ \A i, j \in 1..Len(features) :
                  i # j => features[i].properties.farm_id # features[j].properties.farm_id
            /\ \A f \in Range(features) :
                  \E row \in Range(status) : AgreeOn(SnapshotFields, f.properties, row)

\* a returned status table of one row for a farm_id that two registry rows
\* share: the time series holds four rows of that farm_id, two of them for a
\* forecast hour, the status row is the observed hour with the land-cover code,
\* and one boundary feature carries it
C24_Witness ==
    /\ pc = "done"
    /\ Len(farms) = 2
    /\ farms[1].farm_id = farms[2].farm_id
    /\ Len(result[1].chart_farm_timeseries) = 4
    /\ Len(result[1].map_farm_status) = 1
    /\ \E c \in Range(result[1].chart_farm_timeseries) :
          HourOf(c.hour_utc) > HourOf(result[1].map_farm_status[1].hour_utc)
    /\ result[1].map_farm_status[1].cdl_class_code = Some(69)
    /\ Len(result[1].map_farm_boundaries.features) = 1
    /\ result[1].map_farm_boundaries.features[1].properties.hour_utc
           = result[1].map_farm_status[1].hour_utc

====
